---------------------------- MODULE Spec2Model ----------------------------
(***************************************************************************)
(* ftptop (utils/ftptop.c): a curses monitor that polls the proftpd        *)
(* scoreboard, classifies every session entry, counts and formats them,    *)
(* paints a frame and waits for a key.                                     *)
(*                                                                         *)
(* The process is modelled as a state machine over its global variables    *)
(* and the position of main (pc).  The environment is the proftpd daemon   *)
(* writing the scoreboard, the user typing keys, signal delivery, and      *)
(* allocation / open / stat results.                                       *)
(***************************************************************************)
EXTENDS Integers, Sequences, FiniteSets, TLC

VARIABLES
  pc,               \* position of main()
  argv,             \* the options getopt() will return, in order
  optind,           \* number of options already returned by getopt()
  delay,            \* static int delay
  display_session,  \* static unsigned int display_session (bit set)
  ftp_nsessions,    \* number of rows stored in ftp_sessions
  ftp_nuploads,
  ftp_ndownloads,
  ftp_nidles,
  ftp_sessions,     \* the row strings stored so far (<<>> when NULL)
  ftp_cap,          \* slots allocated for ftp_sessions (0 when NULL)
  leaked,           \* a row array became unreachable without being freed
  lastPoll,         \* history: a frame an observer noted, kept while the
                    \* scoreboard keeps the contents that poll read
  board,            \* contents of the scoreboard file (kept by the daemon)
  sb_open,          \* the scoreboard is open in this process
  sb_pos,           \* entries already returned by util_scoreboard_read_entry
  open_res,         \* result of scoreboard_open() in the poll being read
  key,              \* key waiting in the terminal input buffer
  installed,        \* signal handlers installed
  hstack,           \* running finish() signal handlers, innermost last
  term,             \* terminal mode: "shell", "curses", "restored"
  endwins,          \* calls of endwin() so far
  exited,           \* the process has exited
  exit_code

vars == <<pc, argv, optind, delay, display_session, ftp_nsessions,
          ftp_nuploads, ftp_ndownloads, ftp_nidles, ftp_sessions, ftp_cap,
          leaked, lastPoll, board, sb_open, sb_pos, open_res, key, installed,
          hstack, term, endwins, exited, exit_code>>

progvars == <<argv, optind, delay, display_session>>
pollvars == <<ftp_nsessions, ftp_nuploads, ftp_ndownloads, ftp_nidles,
              ftp_sessions, ftp_cap, leaked>>
sbvars   == <<sb_open, sb_pos, open_res>>
termvars == <<term, endwins, exited, exit_code>>

-----------------------------------------------------------------------------
(* Bounds of the model *)

MaxSessions == 4      \* entries in the scoreboard (poll specification)
MaxShort    == 2      \* entries in the scoreboard (label specification)
MaxFew      == 1      \* entries in the scoreboard (whole-environment specification)
MaxArgs     == 3      \* options on the command line (option specification)
MaxRepeat   == 3      \* entries in the scoreboard (repeated-poll specification)
MaxRows     == 7      \* entries in the scoreboard (row-buffer specification)

-----------------------------------------------------------------------------
(* Program constants *)

FTPTOP_SHOW_DOWNLOAD == 1
FTPTOP_SHOW_UPLOAD   == 2
FTPTOP_SHOW_IDLE     == 4
FTPTOP_SHOW_ALL      == 7
chunklen             == 3
DefaultDelay         == 2
NSignals             == 2      \* SIGINT and SIGTERM
HalfdelayMax         == 255    \* halfdelay() takes tenths in 1..255

UTIL_SCORE_ERR_BAD_MAGIC     == -2
UTIL_SCORE_ERR_OLDER_VERSION == -3
UTIL_SCORE_ERR_NEWER_VERSION == -4

OpenErrors == {-1, UTIL_SCORE_ERR_BAD_MAGIC, UTIL_SCORE_ERR_OLDER_VERSION,
               UTIL_SCORE_ERR_NEWER_VERSION}

-----------------------------------------------------------------------------
(* C library helpers, computed as the library computes them *)

Min(a, b) == IF a < b THEN a ELSE b

\* strstr(s, t) != NULL
Contains(s, t) ==
  \E i \in 1..(Len(s) - Len(t) + 1) : SubSeq(s, i, i + Len(t) - 1) = t

\* printf("%-.ns"): at most n characters of s
Trunc(s, n) == SubSeq(s, 1, Min(Len(s), n))

RECURSIVE Spaces(_)
Spaces(n) == IF n <= 0 THEN "" ELSE " " \o Spaces(n - 1)

\* printf("%-5d"): left-justified, padded to the width, never truncated
PadRight(s, w) == s \o Spaces(w - Len(s))

Digits == {"0", "1", "2", "3", "4", "5", "6", "7", "8", "9"}

DigitVal(c) ==
  CASE c = "0" -> 0 [] c = "1" -> 1 [] c = "2" -> 2 [] c = "3" -> 3
    [] c = "4" -> 4 [] c = "5" -> 5 [] c = "6" -> 6 [] c = "7" -> 7
    [] c = "8" -> 8 [] c = "9" -> 9

RECURSIVE AtoiDigits(_, _, _)
AtoiDigits(s, i, acc) ==
  IF i > Len(s) \/ SubSeq(s, i, i) \notin Digits
    THEN acc
    ELSE AtoiDigits(s, i + 1, acc * 10 + DigitVal(SubSeq(s, i, i)))

\* atoi(): optional sign, then the leading digits; 0 when there are none
atoi(s) ==
  IF Len(s) > 0 /\ SubSeq(s, 1, 1) = "-" THEN 0 - AtoiDigits(s, 2, 0)
  ELSE IF Len(s) > 0 /\ SubSeq(s, 1, 1) = "+" THEN AtoiDigits(s, 2, 0)
  ELSE AtoiDigits(s, 1, 0)

\* tolower() on the keys of the model
tolower(c) == IF c = "Q" THEN "q" ELSE IF c = "X" THEN "x" ELSE c

\* x & bit != 0, for a single-bit mask
HasBit(x, bit) == (x \div bit) % 2 = 1

\* x & ~bit
ClearBit(x, bit) == IF HasBit(x, bit) THEN x - bit ELSE x

-----------------------------------------------------------------------------
(* The scoreboard entries the daemon may publish (pr_scoreboard_entry_t) *)

Entry(pid, user, client, server, cmd) ==
  [sce_pid |-> pid, sce_user |-> user, sce_client_addr |-> client,
   sce_server_addr |-> server, sce_cmd |-> cmd]

SessIdle == Entry(101, "alice", "10.0.0.1", "ftp.example.org", "(idle)")
SessRetr == Entry(20022, "bartholomew_long", "192.168.1.20", "0.0.0.0",
                  "RETR /pub/releases/image-12.iso")
SessStor == Entry(303, "carol", "10.0.0.3", "ftp.example.org", "STOR up.bin")
SessList == Entry(4, "dave", "10.0.0.4", "0.0.0.0", "LIST")
SessAuth == Entry(55, "(none)", "10.0.0.5", "0.0.0.0", "PASS (hidden)")

SessAppe == Entry(66, "erin", "10.0.0.6", "0.0.0.0", "APPE log.txt")
SessStou == Entry(77, "frank", "10.0.0.7", "0.0.0.0", "STOU")
SessNlst == Entry(88, "grace", "10.0.0.8", "0.0.0.0", "NLST /pub")
SessIdleRetr == Entry(99, "heidi", "10.0.0.9", "0.0.0.0", "RETR a.iso (idle)")
SessRetrStor == Entry(110, "ivan", "10.0.0.10", "0.0.0.0", "STOR RETR.txt")
SessStorList == Entry(121, "judy", "10.0.0.11", "0.0.0.0", "LIST STORE")

\* One entry of each status
CoreSessions == {SessIdle, SessRetr, SessStor, SessList, SessAuth}

\* Every keyword of the classification, and labels matching several rules
AllSessions ==
  CoreSessions \cup {SessAppe, SessStou, SessNlst, SessIdleRetr, SessRetrStor,
                     SessStorList}

-----------------------------------------------------------------------------
(* read_scoreboard: classification, filtering and formatting of one entry *)

\* Mutant of Status: "LIST" / "NLST" are tested before the upload keywords
Status_ListBeforeStore(cmd) ==
  IF Contains(cmd, "(idle)") THEN "I"
  ELSE IF Contains(cmd, "RETR") THEN "D"
  ELSE IF Contains(cmd, "LIST") \/ Contains(cmd, "NLST") THEN "L"
  ELSE IF Contains(cmd, "STOR") \/ Contains(cmd, "APPE")
          \/ Contains(cmd, "STOU") THEN "U"
  ELSE "A"

\* Mutant of Status: "RETR" is tested before "(idle)"
Status_RetrFirst(cmd) ==
  IF Contains(cmd, "RETR") THEN "D"
  ELSE IF Contains(cmd, "(idle)") THEN "I"
  ELSE IF Contains(cmd, "STOR") \/ Contains(cmd, "APPE")
          \/ Contains(cmd, "STOU") THEN "U"
  ELSE IF Contains(cmd, "LIST") \/ Contains(cmd, "NLST") THEN "L"
  ELSE "A"

\* The status symbol: the if / else-if chain on strstr(score->sce_cmd, ...)
Status(cmd) ==
  IF Contains(cmd, "(idle)") THEN "I"
  ELSE IF Contains(cmd, "RETR") THEN "D"
  ELSE IF Contains(cmd, "STOR") \/ Contains(cmd, "APPE")
          \/ Contains(cmd, "STOU") THEN "U"
  ELSE IF Contains(cmd, "LIST") \/ Contains(cmd, "NLST") THEN "L"
  ELSE "A"

\* Mutant of Retained: listings are skipped when no category is shown whole
Retained_ListFiltered(st, ds) ==
  CASE st = "I" -> HasBit(ds, FTPTOP_SHOW_IDLE)
    [] st = "D" -> HasBit(ds, FTPTOP_SHOW_DOWNLOAD)
    [] st = "U" -> HasBit(ds, FTPTOP_SHOW_UPLOAD)
    [] st = "L" -> ds = FTPTOP_SHOW_ALL
    [] OTHER    -> TRUE

\* The `continue` tests: a row is stored unless its category bit is off
Retained(st, ds) ==
  CASE st = "I" -> HasBit(ds, FTPTOP_SHOW_IDLE)
    [] st = "D" -> HasBit(ds, FTPTOP_SHOW_DOWNLOAD)
    [] st = "U" -> HasBit(ds, FTPTOP_SHOW_UPLOAD)
    [] OTHER    -> TRUE

\* snprintf(buf, sizeof(buf), FTPTOP_DISPLAY_FORMAT, ...)
\*   "%-5d %s %-.10s %-.7s %s 0 %-.20s\n"
FormatRow(e) ==
  PadRight(ToString(e.sce_pid), 5) \o " " \o Status(e.sce_cmd) \o " "
    \o Trunc(e.sce_user, 10) \o " " \o Trunc(e.sce_client_addr, 7) \o " "
    \o e.sce_server_addr \o " 0 " \o Trunc(e.sce_cmd, 20) \o "\n"

\* Mutant of GrownCap: the array is grown at the first chunk only
GrownCap_GrowsOnce(n, cap) ==
  IF n = chunklen THEN n + chunklen ELSE cap

\* The capacity after the realloc test that precedes a store
GrownCap(n, cap) ==
  IF n # 0 /\ n % chunklen = 0 THEN n + chunklen ELSE cap

-----------------------------------------------------------------------------
(* process_opts: one getopt() result per step *)

Opt(o, a) == [opt |-> o, arg |-> a]

NoKey == ""
Keys  == {"q", "Q", "x"}

\* Mutant of DelayIllegal: a delay of 0 is rejected too
DelayIllegal_ZeroToo(d) == d <= 0

\* delay < 0: the argument of -d is rejected
DelayIllegal(d) == d < 0

\* Mutant of NewDisplay: -I sets the idle bit without clearing the others
NewDisplay_IdleOrs(o, ds) ==
  CASE o.opt = "D" -> FTPTOP_SHOW_DOWNLOAD
    [] o.opt = "I" -> IF HasBit(ds, FTPTOP_SHOW_IDLE)
                        THEN ds ELSE ds + FTPTOP_SHOW_IDLE
    [] o.opt = "U" -> FTPTOP_SHOW_UPLOAD
    [] o.opt = "i" -> ClearBit(ds, FTPTOP_SHOW_IDLE)
    [] OTHER       -> ds

\* display_session after the switch case of option o
NewDisplay(o, ds) ==
  CASE o.opt = "D" -> FTPTOP_SHOW_DOWNLOAD
    [] o.opt = "I" -> FTPTOP_SHOW_IDLE
    [] o.opt = "U" -> FTPTOP_SHOW_UPLOAD
    [] o.opt = "i" -> ClearBit(ds, FTPTOP_SHOW_IDLE)
    [] OTHER       -> ds

\* delay after the switch case of option o
NewDelay(o, d) == IF o.opt = "d" THEN atoi(o.arg) ELSE d

\* usage() and show_version() exit(0); an illegal delay exits 1
OptExits(o) ==
  \/ o.opt \in {"h", "V"}
  \/ o.opt = "d" /\ DelayIllegal(atoi(o.arg))

\* Mutant of OptExitCode: usage() and show_version() exit with 1 too
OptExitCode_AlwaysOne(o) == 1

OptExitCode(o) == IF o.opt \in {"h", "V"} THEN 0 ELSE 1

\* main (or a callee) is running: no handler has interrupted it
Main(p) == ~exited /\ hstack = <<>> /\ pc = p

ProcessOpt ==
  /\ Main("opts")
  /\ optind < Len(argv)
  /\ LET o == argv[optind + 1] IN
       /\ optind' = optind + 1
       /\ delay' = NewDelay(o, delay)
       /\ display_session' = NewDisplay(o, display_session)
       /\ exited' = OptExits(o)
       /\ exit_code' = IF OptExits(o) THEN OptExitCode(o) ELSE exit_code
  /\ UNCHANGED <<pc, argv, pollvars, board, lastPoll, sbvars, key, installed,
                 hstack, term, endwins>>

OptsDone ==
  /\ Main("opts")
  /\ optind = Len(argv)
  /\ pc' = "verify"
  /\ UNCHANGED <<progvars, pollvars, board, lastPoll, sbvars, key, installed,
                 hstack, termvars>>

-----------------------------------------------------------------------------
(* main: verify_scoreboard_file, signal(), initscr() *)

VerifyOk ==
  /\ Main("verify")
  /\ pc' = "signal"
  /\ UNCHANGED <<progvars, pollvars, board, lastPoll, sbvars, key, installed,
                 hstack, termvars>>

\* stat() < 0: exit(1)
VerifyFail ==
  /\ Main("verify")
  /\ exited' = TRUE
  /\ exit_code' = 1
  /\ UNCHANGED <<pc, progvars, pollvars, board, lastPoll, sbvars, key,
                 installed, hstack, term, endwins>>

InstallHandlers ==
  /\ Main("signal")
  /\ installed' = TRUE
  /\ pc' = "initscr"
  /\ UNCHANGED <<progvars, pollvars, board, lastPoll, sbvars, key, hstack,
                 termvars>>

Initscr ==
  /\ Main("initscr")
  /\ term' = "curses"
  /\ pc' = "clear"
  /\ UNCHANGED <<progvars, pollvars, board, lastPoll, sbvars, key, installed,
                 hstack, endwins, exited, exit_code>>

-----------------------------------------------------------------------------
(* show_sessions: clear_counters, read_scoreboard, paint *)

\* Mutant of ClearCounters: the idle counter is not reset
ClearCounters_KeepIdles ==
  /\ Main("clear")
  /\ IF ftp_cap > 0 /\ ftp_nsessions > 0
       THEN ftp_sessions' = <<>> /\ ftp_cap' = 0
       ELSE UNCHANGED <<ftp_sessions, ftp_cap>>
  /\ ftp_nsessions' = 0
  /\ ftp_nuploads' = 0
  /\ ftp_ndownloads' = 0
  /\ pc' = "alloc"
  /\ UNCHANGED <<progvars, ftp_nidles, leaked, board, lastPoll, sbvars, key,
                 installed, hstack, termvars>>

\* Mutant of ClearCounters: the download counter is not reset
ClearCounters_KeepDownloads ==
  /\ Main("clear")
  /\ IF ftp_cap > 0 /\ ftp_nsessions > 0
       THEN ftp_sessions' = <<>> /\ ftp_cap' = 0
       ELSE UNCHANGED <<ftp_sessions, ftp_cap>>
  /\ ftp_nsessions' = 0
  /\ ftp_nuploads' = 0
  /\ ftp_nidles' = 0
  /\ pc' = "alloc"
  /\ UNCHANGED <<progvars, ftp_ndownloads, leaked, board, lastPoll, sbvars,
                 key, installed, hstack, termvars>>

\* clear_counters: the rows and the array are freed only when both the
\* pointer and the row count are non-zero; the counters are always reset.
ClearCounters ==
  /\ Main("clear")
  /\ IF ftp_cap > 0 /\ ftp_nsessions > 0
       THEN ftp_sessions' = <<>> /\ ftp_cap' = 0
       ELSE UNCHANGED <<ftp_sessions, ftp_cap>>
  /\ ftp_nsessions' = 0
  /\ ftp_nuploads' = 0
  /\ ftp_ndownloads' = 0
  /\ ftp_nidles' = 0
  /\ pc' = "alloc"
  /\ UNCHANGED <<progvars, leaked, board, lastPoll, sbvars, key, installed,
                 hstack, termvars>>

\* ftp_sessions = calloc(chunklen, sizeof(char *)): the old pointer, when
\* clear_counters left one, is overwritten.
AllocRows ==
  /\ Main("alloc")
  /\ leaked' = (leaked \/ ftp_cap > 0)
  /\ ftp_sessions' = <<>>
  /\ ftp_cap' = chunklen
  /\ pc' = "open"
  /\ UNCHANGED <<progvars, ftp_nsessions, ftp_nuploads, ftp_ndownloads,
                 ftp_nidles, board, lastPoll, sbvars, key, installed, hstack,
                 termvars>>

\* scoreboard_open() == 0
OpenOk ==
  /\ Main("open")
  /\ sb_open' = TRUE
  /\ sb_pos' = 0
  /\ open_res' = 0
  /\ pc' = "read"
  /\ UNCHANGED <<progvars, pollvars, board, lastPoll, key, installed, hstack,
                 termvars>>

\* Mutant of OpenFail: a failed open ends the process
OpenFail_Exits ==
  /\ Main("open")
  /\ \E res \in OpenErrors : open_res' = res
  /\ exited' = TRUE
  /\ exit_code' = 1
  /\ UNCHANGED <<pc, progvars, pollvars, board, lastPoll, sb_open, sb_pos,
                 key, installed, hstack, term, endwins>>

\* scoreboard_open() < 0: read_scoreboard returns at once
OpenFail ==
  /\ Main("open")
  /\ \E res \in OpenErrors : open_res' = res
  /\ pc' = "paint"
  /\ UNCHANGED <<progvars, pollvars, board, lastPoll, sb_open, sb_pos, key,
                 installed, hstack, termvars>>

\* The counters after an entry of status st
CountIdle(st, n)     == IF st = "I" THEN n + 1 ELSE n
CountDownload(st, n) == IF st = "D" THEN n + 1 ELSE n
CountUpload(st, n)   == IF st = "U" THEN n + 1 ELSE n

\* One turn of the while loop: an entry is read, counted and, unless the
\* filter skips it, formatted and stored at ftp_sessions[ftp_nsessions].
ReadEntry ==
  /\ Main("read")
  /\ sb_pos < Len(board)
  /\ LET e  == board[sb_pos + 1]
         st == Status(e.sce_cmd)
     IN /\ sb_pos' = sb_pos + 1
        /\ ftp_nidles' = CountIdle(st, ftp_nidles)
        /\ ftp_ndownloads' = CountDownload(st, ftp_ndownloads)
        /\ ftp_nuploads' = CountUpload(st, ftp_nuploads)
        /\ IF Retained(st, display_session)
             THEN /\ ftp_cap' = GrownCap(ftp_nsessions, ftp_cap)
                  /\ ftp_sessions' = Append(ftp_sessions, FormatRow(e))
                  /\ ftp_nsessions' = ftp_nsessions + 1
             ELSE UNCHANGED <<ftp_cap, ftp_sessions, ftp_nsessions>>
  /\ UNCHANGED <<pc, progvars, leaked, board, lastPoll, sb_open, open_res,
                 key, installed, hstack, termvars>>

\* util_scoreboard_read_entry() == NULL
ReadEnd ==
  /\ Main("read")
  /\ sb_pos = Len(board)
  /\ pc' = "close"
  /\ UNCHANGED <<progvars, pollvars, board, lastPoll, sbvars, key, installed,
                 hstack, termvars>>

\* scoreboard_close(): the handle and its read position are gone
ScoreboardClose ==
  /\ Main("close")
  /\ sb_open' = FALSE
  /\ sb_pos' = 0
  /\ pc' = "paint"
  /\ UNCHANGED <<progvars, pollvars, board, lastPoll, open_res, key,
                 installed, hstack, termvars>>

\* What show_sessions prints: the summary numbers and the rows
Frame ==
  [total       |-> ftp_nsessions,
   downloading |-> ftp_ndownloads,
   uploading   |-> ftp_nuploads,
   idle        |-> ftp_nidles,
   rows        |-> IF ftp_cap > 0 /\ ftp_nsessions > 0
                     THEN SubSeq(ftp_sessions, 1, ftp_nsessions) ELSE <<>>]

\* The frame is painted and show_sessions returns to the loop; the result of
\* this poll's open is not kept.
Paint ==
  /\ Main("paint")
  /\ open_res' = 0
  /\ pc' = "halfdelay"
  /\ UNCHANGED <<progvars, pollvars, board, lastPoll, sb_open, sb_pos, key,
                 installed, hstack, termvars>>

\* No frame of the present contents of the scoreboard has been noted
NoPoll == <<>>

\* Paint, with an observer noting the frame of a poll that read the
\* scoreboard: lastPoll is a history variable, the program never reads it.
PaintWatched ==
  /\ Main("paint")
  /\ open_res = 0
  /\ lastPoll' = <<Frame>>
  /\ pc' = "halfdelay"
  /\ UNCHANGED <<progvars, pollvars, board, sbvars, key, installed, hstack,
                 termvars>>

\* An allocation returns NULL: exit(1).  At "alloc" it is the calloc of the
\* array; at "read" the realloc of the array or the calloc of the row of an
\* entry that has been counted and is to be stored.
AllocFail ==
  /\ ~exited /\ hstack = <<>>
  /\ \/ /\ pc = "alloc"
        /\ leaked' = (leaked \/ ftp_cap > 0)
        /\ ftp_cap' = 0
        /\ UNCHANGED <<ftp_nidles, ftp_ndownloads, ftp_nuploads, sb_pos>>
     \/ /\ pc = "read"
        /\ sb_pos < Len(board)
        /\ LET st == Status(board[sb_pos + 1].sce_cmd) IN
             /\ Retained(st, display_session)
             /\ ftp_nidles' = CountIdle(st, ftp_nidles)
             /\ ftp_ndownloads' = CountDownload(st, ftp_ndownloads)
             /\ ftp_nuploads' = CountUpload(st, ftp_nuploads)
        /\ sb_pos' = sb_pos + 1
        /\ UNCHANGED <<leaked, ftp_cap>>
  /\ exited' = TRUE
  /\ exit_code' = 1
  /\ UNCHANGED <<pc, progvars, ftp_nsessions, ftp_sessions, board, lastPoll,
                 sb_open, open_res, key, installed, hstack, term, endwins>>

-----------------------------------------------------------------------------
(* main: the display loop *)

\* halfdelay(tenths) != ERR
HalfdelayArms(tenths) == tenths >= 1 /\ tenths <= HalfdelayMax

\* if (halfdelay(delay * 10) != ERR) getch() is called next; else c stays -1
\* and show_sessions runs at once
Halfdelay ==
  /\ Main("halfdelay")
  /\ pc' = IF HalfdelayArms(delay * 10) THEN "getch" ELSE "clear"
  /\ UNCHANGED <<progvars, pollvars, board, lastPoll, sbvars, key, installed,
                 hstack, termvars>>

\* c != -1 && tolower(c) == 'q'
IsQuit(c) == tolower(c) = "q"

\* getch() returns a key: 'q' calls finish(0), another key repaints
GetchKey ==
  /\ Main("getch")
  /\ key # NoKey
  /\ key' = NoKey
  /\ pc' = IF IsQuit(key) THEN "finish" ELSE "clear"
  /\ UNCHANGED <<progvars, pollvars, board, lastPoll, sbvars, installed,
                 hstack, termvars>>

\* getch() returns ERR when the delay expires with no key
GetchTimeout ==
  /\ Main("getch")
  /\ key = NoKey
  /\ pc' = "clear"
  /\ UNCHANGED <<progvars, pollvars, board, lastPoll, sbvars, key, installed,
                 hstack, termvars>>

-----------------------------------------------------------------------------
(* finish: endwin(); exit(0), called by main or run as a signal handler *)

\* endwin() restores the terminal initscr() took over
Endwin(t) == IF t = "curses" THEN "restored" ELSE t

FinishEndwin ==
  /\ Main("finish")
  /\ term' = Endwin(term)
  /\ endwins' = endwins + 1
  /\ pc' = "exit"
  /\ UNCHANGED <<progvars, pollvars, board, lastPoll, sbvars, key, installed,
                 hstack, exited, exit_code>>

FinishExit ==
  /\ Main("exit")
  /\ exited' = TRUE
  /\ exit_code' = 0
  /\ UNCHANGED <<pc, progvars, pollvars, board, lastPoll, sbvars, key,
                 installed, hstack, term, endwins>>

\* SIGINT or SIGTERM is delivered: finish() starts on top of whatever was
\* running.  A signal is blocked while its own handler runs, so at most
\* NSignals handlers nest.
Deliver ==
  /\ ~exited
  /\ installed
  /\ Len(hstack) < NSignals
  /\ hstack' = Append(hstack, "endwin")
  /\ UNCHANGED <<pc, progvars, pollvars, board, lastPoll, sbvars, key,
                 installed, termvars>>

HandlerEndwin ==
  /\ ~exited
  /\ hstack # <<>>
  /\ hstack[Len(hstack)] = "endwin"
  /\ term' = Endwin(term)
  /\ endwins' = endwins + 1
  /\ hstack' = [hstack EXCEPT ![Len(hstack)] = "exit"]
  /\ UNCHANGED <<pc, progvars, pollvars, board, lastPoll, sbvars, key,
                 installed, exited, exit_code>>

HandlerExit ==
  /\ ~exited
  /\ hstack # <<>>
  /\ hstack[Len(hstack)] = "exit"
  /\ exited' = TRUE
  /\ exit_code' = 0
  /\ UNCHANGED <<pc, progvars, pollvars, board, lastPoll, sbvars, key,
                 installed, hstack, term, endwins>>

-----------------------------------------------------------------------------
(* The environment *)

\* The user types a key.  A key waits in the input buffer until getch()
\* reads it, so the keys typed during a poll or during the wait are modelled
\* at the head of the loop, before the wait is armed.
KeyPress ==
  /\ ~exited
  /\ pc = "halfdelay"
  /\ key = NoKey
  /\ \E k \in Keys : key' = k
  /\ UNCHANGED <<pc, progvars, pollvars, board, lastPoll, sbvars, installed,
                 hstack, termvars>>

RemoveAt(s, i) == SubSeq(s, 1, i - 1) \o SubSeq(s, i + 1, Len(s))

\* The daemon changes the scoreboard: a session connects, ends, or changes
\* its command.  The process sees the scoreboard only through open and read,
\* so the changes since the last poll are modelled just before the open.
\* A frame noted for the old contents is forgotten.
ServerWrite(S, max) ==
  /\ Main("open")
  /\ \/ /\ Len(board) < max
        /\ \E e \in S : board' = Append(board, e)
     \/ \E i \in 1..Len(board) : board' = RemoveAt(board, i)
     \/ \E i \in 1..Len(board), e \in S :
          /\ e # board[i]
          /\ board' = [board EXCEPT ![i] = e]
  /\ lastPoll' = NoPoll
  /\ UNCHANGED <<pc, progvars, pollvars, sbvars, key, installed, hstack,
                 termvars>>

-----------------------------------------------------------------------------
(* Specifications *)

InitWith(args, boards) ==
  /\ pc = "opts"
  /\ argv \in args
  /\ optind = 0
  /\ delay = DefaultDelay
  /\ display_session = FTPTOP_SHOW_ALL
  /\ ftp_nsessions = 0
  /\ ftp_nuploads = 0
  /\ ftp_ndownloads = 0
  /\ ftp_nidles = 0
  /\ ftp_sessions = <<>>
  /\ ftp_cap = 0
  /\ leaked = FALSE
  /\ lastPoll = NoPoll
  /\ board \in boards
  /\ sb_open = FALSE
  /\ sb_pos = 0
  /\ open_res = 0
  /\ key = NoKey
  /\ installed = FALSE
  /\ hstack = <<>>
  /\ term = "shell"
  /\ endwins = 0
  /\ exited = FALSE
  /\ exit_code = 0

\* The options of the model
FilterOpts == {Opt("D", ""), Opt("I", ""), Opt("U", ""), Opt("i", "")}
DelayOpts  == {Opt("d", "-1"), Opt("d", "0"), Opt("d", "1"), Opt("d", "26")}
OtherOpts  == {Opt("f", "/tmp/sb"), Opt("h", ""), Opt("V", ""), Opt("?", "")}
AllOpts    == FilterOpts \cup DelayOpts \cup OtherOpts

SeqsUpTo(S, n) == UNION {[1..k -> S] : k \in 0..n}

\* Command lines: every filter the flags can produce, with the default delay
PollArgs ==
  {<<>>, <<Opt("D", "")>>, <<Opt("I", "")>>, <<Opt("U", "")>>,
   <<Opt("i", "")>>, <<Opt("I", ""), Opt("i", "")>>}

\* Command lines: one option each
SingleArgs == SeqsUpTo(AllOpts, 1)

Program ==
  \/ ProcessOpt \/ OptsDone \/ VerifyOk \/ VerifyFail \/ InstallHandlers
  \/ Initscr \/ ClearCounters \/ AllocRows \/ OpenOk \/ OpenFail
  \/ ReadEntry \/ ReadEnd \/ ScoreboardClose \/ Paint
  \/ Halfdelay \/ GetchKey \/ GetchTimeout
  \/ FinishEndwin \/ FinishExit

Signals == Deliver \/ HandlerEndwin \/ HandlerExit

\* The whole program with its whole environment, on a short scoreboard
Init == InitWith(SingleArgs, {<<>>})
Next ==
  Program \/ Signals \/ KeyPress \/ AllocFail
    \/ ServerWrite(CoreSessions, MaxFew)
Spec == Init /\ [][Next]_vars

\* Polls of a scoreboard of up to MaxSessions entries under every filter
InitPoll == InitWith(PollArgs, {<<>>})
NextPoll ==
  Program \/ KeyPress \/ AllocFail \/ ServerWrite(CoreSessions, MaxSessions)
SpecPoll == InitPoll /\ [][NextPoll]_vars

\* Polls of a scoreboard of up to MaxShort entries with every kind of label
InitLabels == InitWith(PollArgs, {<<>>})
NextLabels ==
  Program \/ KeyPress \/ AllocFail \/ ServerWrite(AllSessions, MaxShort)
SpecLabels == InitLabels /\ [][NextLabels]_vars

\* Every command line of up to MaxArgs options, on an unchanging scoreboard
InitOpts == InitWith(SeqsUpTo(AllOpts, MaxArgs), {<<SessIdle>>})
NextOpts == Program \/ KeyPress
SpecOpts == InitOpts /\ [][NextOpts]_vars

\* Polls of a scoreboard of up to MaxRepeat entries, with an observer noting
\* frames
InitRepeat == InitWith(PollArgs, {<<>>})
NextRepeat ==
  Program \/ PaintWatched \/ KeyPress \/ ServerWrite(CoreSessions, MaxRepeat)
SpecRepeat == InitRepeat /\ [][NextRepeat]_vars

\* Polls of a scoreboard of up to MaxRows entries, listings and idle sessions
RowSessions == {SessList, SessIdle}
InitRows == InitWith(PollArgs, {<<>>})
NextRows ==
  Program \/ KeyPress \/ AllocFail \/ ServerWrite(RowSessions, MaxRows)
SpecRows == InitRows /\ [][NextRows]_vars

-----------------------------------------------------------------------------
(* What the claims speak of *)

\* A poll has read the whole scoreboard and its frame is about to be painted
PollRead == ~exited /\ pc = "paint" /\ open_res = 0

\* The poll's open failed and its frame is about to be painted
PollFailed == ~exited /\ pc = "paint" /\ open_res \in OpenErrors

HasIdle(cmd) == Contains(cmd, "(idle)")
HasRetr(cmd) == Contains(cmd, "RETR")
HasStore(cmd) ==
  Contains(cmd, "STOR") \/ Contains(cmd, "APPE") \/ Contains(cmd, "STOU")

IsIdleCmd(cmd)     == HasIdle(cmd)
IsDownloadCmd(cmd) == HasRetr(cmd) /\ ~HasIdle(cmd)
IsUploadCmd(cmd)   == HasStore(cmd) /\ ~HasRetr(cmd) /\ ~HasIdle(cmd)
IsOtherCmd(cmd)    == ~HasStore(cmd) /\ ~HasRetr(cmd) /\ ~HasIdle(cmd)

\* The numbers of idle, download and upload entries of b
NumIdle(b)     == Cardinality({i \in 1..Len(b) : IsIdleCmd(b[i].sce_cmd)})
NumDownload(b) == Cardinality({i \in 1..Len(b) : IsDownloadCmd(b[i].sce_cmd)})
NumUpload(b)   == Cardinality({i \in 1..Len(b) : IsUploadCmd(b[i].sce_cmd)})

\* The upload entries of b, in order
Uploads(b) == SelectSeq(b, LAMBDA e : IsUploadCmd(e.sce_cmd))

\* The entries of b that are neither idle nor downloads, in order
UploadsAndOthers(b) ==
  SelectSeq(b, LAMBDA e : IsUploadCmd(e.sce_cmd) \/ IsOtherCmd(e.sce_cmd))

\* The formatted rows of the entries of b
RowsOf(b) == [i \in 1..Len(b) |-> FormatRow(b[i])]

\* The command line ends its filter flags with -U
UploadOnly ==
  /\ display_session = FTPTOP_SHOW_UPLOAD
  /\ \E i \in 1..Len(argv) : argv[i].opt = "U"

FourKinds == <<SessIdle, SessRetr, SessStor, SessList>>

-----------------------------------------------------------------------------
\* C1: after every poll the total shown in the summary line equals the number
\* of entries the scoreboard yielded in that poll, under every display
\* filter: rows the filter skips are still counted in the total.
C1_TotalCountsEverySession == PollRead => Frame.total = Len(board)

C3_CategoryCounters ==
  PollRead =>
    /\ ftp_nidles = NumIdle(board)
    /\ ftp_ndownloads = NumDownload(board)
    /\ ftp_nuploads = NumUpload(board)

\* C3 witness: under -U an idle entry that also names RETR and a download
\* are both counted, once each, and neither is stored.
C3_Witness ==
  /\ PollRead /\ UploadOnly
  /\ board = <<SessIdleRetr, SessRetr>>
  /\ ftp_nidles = 1 /\ ftp_ndownloads = 1 /\ ftp_nuploads = 0
  /\ Frame.rows = <<>>

-----------------------------------------------------------------------------
(* Termination: the quit key and the signals *)

\* The process keeps running: main and the handlers take their steps
SpecFair ==
  Init /\ [][Next]_vars /\ WF_vars(Program \/ HandlerEndwin \/ HandlerExit)

\* The display loop is running: the terminal is in curses mode
LoopRunning == ~exited /\ term = "curses" /\ hstack = <<>>

QuitPending == key \in {"q", "Q"}

\* C4: for every delay the option parser accepts, a 'q' or 'Q' typed while
\* the display loop runs is eventually read and the process terminates.
C4_QuitKeyTerminates == (LoopRunning /\ QuitPending) ~> exited

\* The quit key was read and the process ended through finish(): main is in
\* finish(0) and the exit code is 0
ExitedAfterQuit == exited /\ exit_code = 0 /\ pc \in {"finish", "exit"}

\* C5: whatever the interleaving of the quit key with SIGINT / SIGTERM,
\* endwin() has been called exactly once when the process exits: a signal
\* delivered while the quit path is inside finish() does not tear down again.
C5_EndwinExactlyOnce == ExitedAfterQuit => endwins = 1

\* C7: every successful open is closed before the next open and before the
\* process exits, on every exit path; close is never called on a scoreboard
\* that is not open.
C7_OpenIsClosed ==
  /\ exited => ~sb_open
  /\ pc = "open" => ~sb_open
  /\ pc = "close" => sb_open

-----------------------------------------------------------------------------
(* Polls: open failures and stale data *)

EmptyFrame ==
  [total |-> 0, downloading |-> 0, uploading |-> 0, idle |-> 0, rows |-> <<>>]

\* The entries of b the filter ds lets through, in order
Shown(b, ds) ==
  SelectSeq(b, LAMBDA e :
    \/ IsIdleCmd(e.sce_cmd) /\ HasBit(ds, FTPTOP_SHOW_IDLE)
    \/ IsDownloadCmd(e.sce_cmd) /\ HasBit(ds, FTPTOP_SHOW_DOWNLOAD)
    \/ IsUploadCmd(e.sce_cmd) /\ HasBit(ds, FTPTOP_SHOW_UPLOAD)
    \/ IsOtherCmd(e.sce_cmd))

\* The frame of a poll that read scoreboard b under filter ds
FrameOf(b, ds) ==
  [total       |-> Len(Shown(b, ds)),
   downloading |-> NumDownload(b),
   uploading   |-> NumUpload(b),
   idle        |-> NumIdle(b),
   rows        |-> RowsOf(Shown(b, ds))]

\* C6: a poll whose open fails with any of the four errors paints zero
\* sessions, zero counters and no rows, and leaves the process running; the
\* open is attempted once in every poll, whatever the earlier polls did, and
\* a poll whose open succeeds paints the sessions of its scoreboard.
C6_OpenFailureIsAbsorbed ==
  /\ [](PollFailed => Frame = EmptyFrame /\ ~sb_open)
  /\ [](open_res \in OpenErrors => ~exited /\ pc = "paint")
  /\ [](Main("open") => ENABLED OpenOk /\ ENABLED OpenFail)
  /\ [](PollRead => Frame.rows = RowsOf(Shown(board, display_session)))
  /\ [][pc' = "open" /\ pc # "open" => pc = "alloc"]_vars
  /\ [][pc = "open" /\ pc' # "open" => pc' \in {"read", "paint"}]_vars
  /\ [][pc' = "paint" /\ pc # "paint" => pc \in {"open", "close"}]_vars

\* C6 witness: the open fails as too old on a scoreboard of four sessions,
\* after an earlier poll that stored no row, and the frame is empty.
C6_Witness ==
  /\ PollFailed
  /\ open_res = UTIL_SCORE_ERR_OLDER_VERSION
  /\ board = FourKinds
  /\ leaked
  /\ Frame = EmptyFrame

\* C8: at every paint, after any earlier polls, the counters and the rows are
\* those of the current poll's snapshot alone: the rows are the formatted
\* rows of its retained entries in scoreboard order.
C8_FrameIsCurrentPoll ==
  /\ PollRead => Frame = FrameOf(board, display_session)
  /\ PollFailed => Frame = EmptyFrame

\* C8 witness: after an earlier poll, the poll of a scoreboard of three
\* sessions under -i: the frame counts all three and shows the two that are
\* not idle, in scoreboard order.
C8_Witness ==
  /\ PollRead
  /\ leaked
  /\ display_session = FTPTOP_SHOW_DOWNLOAD + FTPTOP_SHOW_UPLOAD
  /\ board = <<SessList, SessIdle, SessRetr>>
  /\ Frame.rows = <<FormatRow(SessList), FormatRow(SessRetr)>>
  /\ Frame.idle = 1 /\ Frame.downloading = 1 /\ Frame.uploading = 0

-----------------------------------------------------------------------------
(* process_opts *)

\* The number a -d argument of the model denotes
DelayArg(a) ==
  CASE a = "-1" -> -1 [] a = "0" -> 0 [] a = "1" -> 1 [] a = "26" -> 26

\* C9: a -d argument N < 0 ends the process with exit code 1 before any later
\* option, the scoreboard check, the terminal or a poll; N >= 0 is accepted,
\* becomes the delay, and parsing goes on.
C9_NegativeDelayRejected ==
  /\ \A i \in 1..optind :
       argv[i].opt = "d" /\ DelayArg(argv[i].arg) < 0 =>
         /\ exited /\ exit_code = 1
         /\ optind = i /\ pc = "opts"
         /\ ~installed /\ term = "shell" /\ ftp_cap = 0 /\ ~sb_open
  /\ pc = "opts" /\ optind > 0 /\ argv[optind].opt = "d"
       /\ DelayArg(argv[optind].arg) >= 0 =>
         ~exited /\ delay = DelayArg(argv[optind].arg)

\* C9 witness: -d -1 followed by another option ends the process with that
\* option unread.
C9_Witness ==
  /\ exited /\ exit_code = 1
  /\ optind = 1 /\ Len(argv) > 1
  /\ argv[1] = Opt("d", "-1")

\* The wholesale flags among the first n options
Wholesale(n) == {i \in 1..n : argv[i].opt \in {"D", "I", "U"}}

LastOf(S) == CHOOSE i \in S : \A j \in S : j <= i

\* The categories the first n options leave in the filter
FilterAfter(n) ==
  LET W       == Wholesale(n)
      from    == IF W = {} THEN 0 ELSE LastOf(W)
      base    == IF W = {} THEN {"D", "U", "I"} ELSE {argv[from].opt}
      noIdle  == \E i \in (from + 1)..n : argv[i].opt = "i"
  IN  IF noIdle THEN base \ {"I"} ELSE base

\* The bits of a set of categories
BitsOf(S) ==
  (IF "D" \in S THEN FTPTOP_SHOW_DOWNLOAD ELSE 0)
    + (IF "U" \in S THEN FTPTOP_SHOW_UPLOAD ELSE 0)
    + (IF "I" \in S THEN FTPTOP_SHOW_IDLE ELSE 0)

\* C10: after any sequence of -D, -I, -U, -i the filter is all three
\* categories when no wholesale flag occurred, else the category of the last
\* wholesale flag; minus Idle when a -i follows that flag (or occurs at all
\* when there is none).
C10_FilterFlags == display_session = BitsOf(FilterAfter(optind))

\* C10 witness: -i -I -D: the -i before the wholesale flags is forgotten and
\* the last wholesale flag wins.
C10_Witness ==
  /\ Len(argv) = 3 /\ optind = 3
  /\ argv[1].opt = "i" /\ argv[2].opt = "I" /\ argv[3].opt = "D"
  /\ display_session = FTPTOP_SHOW_DOWNLOAD

-----------------------------------------------------------------------------
(* Repeated polls *)

\* C11: a poll of a scoreboard whose contents have not changed since an
\* earlier poll read them paints the frame that earlier poll painted: the same
\* rows in the same order and the same counters, whatever the polls before
\* and between them did.
C11_RepeatedPollIsIdentical ==
  PollRead /\ lastPoll # NoPoll => Frame = lastPoll[1]

\* C11 witness: under -I a second poll of the same three sessions paints the
\* frame noted at the first: the idle and the listing rows, one download
\* counted.
C11_Witness ==
  /\ PollRead
  /\ lastPoll # NoPoll
  /\ display_session = FTPTOP_SHOW_IDLE
  /\ board = <<SessRetr, SessIdle, SessList>>
  /\ Frame.rows = <<FormatRow(SessIdle), FormatRow(SessList)>>
  /\ Frame.downloading = 1 /\ Frame.idle = 1
  /\ Frame = lastPoll[1]

-----------------------------------------------------------------------------
(* Exit codes *)

\* The process ended inside process_opts, at the option just returned
ExitedAtOption(names) ==
  exited /\ pc = "opts" /\ optind > 0 /\ argv[optind].opt \in names

\* The process ended in verify_scoreboard_file
ExitedAtStat == exited /\ pc = "verify"

\* The process ended in finish(), called by main after the quit key
ExitedInFinish == exited /\ hstack = <<>> /\ pc = "exit"

\* The process ended in finish() run as the handler of a signal
ExitedInHandler == exited /\ hstack # <<>>

-----------------------------------------------------------------------------
(* Classification rules *)

\* The keywords of the four rules, in the order of the rules
RuleKeywords ==
  << {"(idle)"}, {"RETR"}, {"STOR", "APPE", "STOU"}, {"LIST", "NLST"} >>

\* The status of each rule, and of no rule
RuleStatus == <<"I", "D", "U", "L", "A">>

RuleMatches(cmd, r) == \E k \in RuleKeywords[r] : Contains(cmd, k)

\* The earliest rule that label cmd matches; one past the last when none does
FirstRule(cmd) ==
  LET R == {r \in 1..Len(RuleKeywords) : RuleMatches(cmd, r)}
  IN  IF R = {} THEN Len(RuleKeywords) + 1
      ELSE CHOOSE r \in R : \A q \in R : r <= q

\* A record of rule r is emitted under filter ds
RuleEmitted(r, ds) ==
  CASE RuleStatus[r] = "I" -> HasBit(ds, FTPTOP_SHOW_IDLE)
    [] RuleStatus[r] = "D" -> HasBit(ds, FTPTOP_SHOW_DOWNLOAD)
    [] RuleStatus[r] = "U" -> HasBit(ds, FTPTOP_SHOW_UPLOAD)
    [] OTHER               -> TRUE

\* The entries of b emitted under filter ds, in order
Emitted(b, ds) ==
  SelectSeq(b, LAMBDA e : RuleEmitted(FirstRule(e.sce_cmd), ds))

\* The number of entries of b whose earliest rule is r
NumOfRule(b, r) ==
  Cardinality({i \in 1..Len(b) : FirstRule(b[i].sce_cmd) = r})

\* The process id and the status of a formatted row: "%-5d %s ..."
RowPid(row)    == SubSeq(row, 1, 5)
RowStatus(row) == SubSeq(row, 7, 7)

-----------------------------------------------------------------------------
(* The display loop as a state machine *)

\* The states of the loop, by the position of main
Rendering   == {"clear", "alloc", "open", "read", "close", "paint"}
Waiting     == {"halfdelay", "getch"}
Terminating == {"finish", "exit"}

\* C14: the loop starts with a render, every render is followed by the wait,
\* and the wait is left only by its expiry with no key read, which starts a
\* render, or by reading 'q' / 'Q', which terminates: reading another key
\* neither starts a render nor terminates.
C14_LoopStateMachine ==
  /\ [][(pc = "initscr" /\ pc' # pc) => (pc' = "clear")]_vars
  /\ [][(pc \in Rendering /\ ~(pc' \in Rendering)) =>
          (pc' = "halfdelay")]_vars
  /\ [][(pc \in Waiting /\ ~(pc' \in Waiting)) =>
          (pc' \in {"clear", "finish"})]_vars
  /\ [][(pc \in Waiting /\ pc' = "finish") =>
          (IsQuit(key) /\ key' = NoKey)]_vars
  /\ [][(pc \in Waiting /\ pc' = "clear") => (key' = key)]_vars
  /\ [][(key # NoKey /\ ~IsQuit(key) /\ key' = NoKey) =>
          (pc' \in Waiting)]_vars

\* C15: with an accepted delay d > 0 the loop performs one keypress wait,
\* of d seconds, between two renders: from halfdelay(d * 10) main goes on to
\* getch(), never straight to the next render.
C15_WaitBetweenRenders ==
  [][(delay > 0 /\ pc = "halfdelay" /\ pc' # pc) =>
       (HalfdelayArms(delay * 10) /\ pc' = "getch")]_vars

-----------------------------------------------------------------------------
(* Cancellation *)

\* C16: teardown begins only at the wait point of the loop: main enters
\* finish() from the wait with the terminal initialised, and a signal handler
\* runs only while main is at the wait (or already in finish), never during
\* a poll or a paint and never before initscr().
C16_TeardownOnlyAtWaitPoint ==
  /\ pc \in Terminating => term # "shell"
  /\ hstack # <<>> =>
       /\ pc \in Waiting \cup Terminating
       /\ term # "shell"

-----------------------------------------------------------------------------
(* The row buffer *)

\* The slots a poll has allocated when it has stored n rows
SlotsFor(n) ==
  IF n = 0 THEN chunklen ELSE chunklen * (((n - 1) \div chunklen) + 1)

\* C17: every store ftp_sessions[ftp_nsessions] is made below the capacity
\* allocated at that moment (chunklen slots, grown by chunklen when the count
\* is a non-zero multiple of chunklen), one row at a time, and after the poll
\* ftp_nsessions is the number of rows stored.
C17_RowBufferBounds ==
  /\ [](ftp_nsessions = Len(ftp_sessions) /\ ftp_nsessions <= ftp_cap)
  /\ [](pc \in {"read", "close", "paint"} => ftp_cap = SlotsFor(ftp_nsessions))
  /\ [](PollRead => ftp_nsessions = Len(Shown(board, display_session)))
  /\ [][(ftp_nsessions' > ftp_nsessions) =>
          /\ ftp_nsessions' = ftp_nsessions + 1
          /\ ftp_nsessions < ftp_cap'
          /\ ftp_cap' \in {ftp_cap, ftp_cap + chunklen}]_vars

\* C17 witness: a poll has stored seven rows; the array was grown twice.
C17_Witness ==
  /\ PollRead
  /\ ftp_nsessions = 2 * chunklen + 1
  /\ Len(Frame.rows) = ftp_nsessions
  /\ ftp_cap = 3 * chunklen

\* C18: the reset at the start of a poll releases the rows and the row array
\* of the poll before it, whatever that poll did: when read_scoreboard
\* allocates the array none is live, and no array is ever lost.
C18_NoRowBufferLeak ==
  /\ pc = "alloc" => ftp_cap = 0 /\ ftp_sessions = <<>>
  /\ ~leaked

=============================================================================
